---- MODULE Spec2Model ----
(***************************************************************************)
(* A model of the starfield viewer: the Neo4j data-access service          *)
(* (src/src/services/neo4j.service.js), the StarView component with its    *)
(* fetch effect and 3D scene controls (src/src/components/StarView.js) and *)
(* the stand-alone connection-test script (src/unnamed/part_000).          *)
(*                                                                         *)
(* The database driver is the environment: every awaited driver promise    *)
(* (session.run, driver.verifyConnectivity, session.close, driver.close)   *)
(* may resolve or reject.  Wall-clock time is counted in whole hours.      *)
(***************************************************************************)
EXTENDS Integers, Sequences, FiniteSets, TLC

VARIABLES
  \* ---- Neo4jService: the invocation in progress
  svcOp,            \* operation being executed ("none" before the first call)
  svcPc,            \* "idle" | "ready" | "awaiting" | "closing" | "settled"
  svcStep,          \* index of the next / current query of the operation
  svcError,         \* the error caught by the operation's catch block
  svcPending,       \* completion recorded by try/catch, delivered after finally
  svcOutcome,       \* how the operation's promise settled
  closeRejected,    \* session.close() of this invocation rejected
  openSessions,     \* sessions created by driver.session() and not yet closed
  inflight,         \* driver requests sent and not yet answered
  issued,           \* the requests sent by the current invocation, in order
  calls,            \* number of invocations of each service operation
  caller,           \* who awaits the invocation: "none" | "view" | "client"
  \* ---- StarView component state
  error, loading, papers, lastFetchTime, connectionStatus,
  effectPending,    \* the fetch effect is scheduled (mount, or lastFetchTime changed)
  fetchPc,          \* position of fetchData: "idle" | "verifying" | "loadingPapers"
  neo4jData,        \* fetchData's local: the array getAllPapers resolved with
  lastRun,          \* how the last completed run of fetchData ended
  now,              \* Date.now(), in hours
  rendered,         \* what StarView's last render put on screen
  \* ---- StarScene / CameraController state
  autoFlight, orbitTarget, controlsTarget, paperPositions, keys,
  held,             \* keys physically held down
  camera,           \* camera position, as displacement accumulated per direction
  moves,            \* number of camera-moving callbacks run so far
  fPresses,         \* number of keydown events of 'f' / 'F' so far
  lastFrame,        \* what the last useFrame callback of CameraController did
  \* ---- connection-test script
  tPc, tError, tLog, tCleanup, tExit

svcVars == <<svcOp, svcPc, svcStep, svcError, svcPending, svcOutcome,
             closeRejected, openSessions, inflight, issued, calls, caller>>
viewVars == <<error, loading, papers, lastFetchTime, connectionStatus,
              effectPending, fetchPc, neo4jData, lastRun, now, rendered>>
sceneVars == <<autoFlight, orbitTarget, controlsTarget, paperPositions, keys,
               held, camera, moves, fPresses, lastFrame>>
scriptVars == <<tPc, tError, tLog, tCleanup, tExit>>
vars == <<svcVars, viewVars, sceneVars, scriptVars>>

(***************************************************************************)
(* Bounds of the model.                                                    *)
(***************************************************************************)
MaxRecords == 2      \* longest result set the database answers with
MaxNow == 26         \* last hour the clock reaches
MaxMoves == 1        \* camera-moving callbacks (frames, wheel events) per run
MaxFPresses == 3     \* keydown events of 'f' per run
MaxHeld == 3         \* keys held down at the same time
MaxCalls == 2        \* service calls another client makes

(***************************************************************************)
(* JavaScript values.  A value is a record [t, v]: its type and its text.  *)
(***************************************************************************)
Undefined == [t |-> "undefined", v |-> ""]
Null == [t |-> "null", v |-> ""]
Str(s) == [t |-> "string", v |-> s]
Num(s) == [t |-> "number", v |-> s]

\* JavaScript truthiness (ToBoolean)
Truthy(x) ==
  CASE x.t = "undefined" -> FALSE
    [] x.t = "null" -> FALSE
    [] x.t = "string" -> x.v # ""
    [] x.t = "number" -> x.v \notin {"0", "NaN"}
    [] OTHER -> TRUE

\* Number.prototype.toString for the node identities of the model
IntToString(n) ==
  CASE n = 0 -> "0" [] n = 1 -> "1" [] n = 2 -> "2" [] n = 3 -> "3"
    [] n = 4 -> "4" [] n = 5 -> "5" [] n = 6 -> "6" [] n = 7 -> "7"
    [] n = 8 -> "8" [] OTHER -> "9"

SeqsUpTo(S, n) == UNION {[1..k -> S] : k \in 0..n}

(***************************************************************************)
(* The database, as the driver presents it.                                *)
(***************************************************************************)
\* values a node's `name` property may have (absent, empty, a number, text)
NameVals == {Undefined, Str(""), Num("7"), Str("a"), Str("b")}

\* a result set of nodes: node i has identity i and some `name` property
NodeSets ==
  {[i \in 1..Len(ns) |-> [identity |-> i, name |-> ns[i]]] :
     ns \in SeqsUpTo(NameVals, MaxRecords)}

\* errors the driver rejects with
Errors ==
  {[code |-> c, message |-> m] :
     c \in {"ServiceUnavailable", "SecurityError", "Neo.ClientError"},
     m \in {"e1", "e2"}}
NoError == [code |-> "", message |-> ""]

Ops == {"verifyConnection", "getAllPapers", "getPaperDetails", "getRelatedPapers"}

\* the driver requests each operation awaits inside its try block, in order
Requests(op) ==
  CASE op = "verifyConnection" ->
         <<"RETURN 1 as n", "verifyConnectivity", "CALL dbms.components()">>
    [] op = "getAllPapers" -> <<"CALL db.labels()", "MATCH (n) RETURN n">>
    [] op = "getPaperDetails" -> <<"MATCH (n) WHERE id(n) = $paperId">>
    [] op = "getRelatedPapers" -> <<"MATCH (n)-[r]-(related)">>
    [] OTHER -> <<>>

\* what the request can be answered with; only the last request of a data
\* operation has its records read
Answers(op, step) ==
  IF op # "verifyConnection" /\ step = Len(Requests(op)) THEN NodeSets ELSE {<<>>}

\* how a promise settled: the value it resolved with (an array of papers, a
\* paper or null as a sequence of at most one paper, or a boolean seen through
\* its truthiness) or the message of the Error it rejected with
NoOutcome == [kind |-> "none", message |-> "", value |-> <<>>, truthy |-> FALSE]
Resolved(v, b) == [kind |-> "resolved", message |-> "", value |-> v, truthy |-> b]
Rejected(m) == [kind |-> "rejected", message |-> m, value |-> <<>>, truthy |-> FALSE]

\* record => { id: node.identity.toString(), ...properties } (labels left out:
\* no reader of the model's state uses them)
ToPaper(node) == [id |-> IntToString(node.identity), name |-> node.name]

\* result.records.map(record => ...)
ToPapers(records) == [i \in 1..Len(records) |-> ToPaper(records[i])]

\* the value the try block returns after the last request was answered
ReturnValue(op, records) ==
  CASE op = "verifyConnection" -> <<>>
    [] op = "getAllPapers" -> ToPapers(records)
    [] op = "getPaperDetails" ->
         IF records = <<>> THEN <<>> ELSE <<ToPaper(records[1])>>
    [] OTHER -> ToPapers(records)

\* ToBoolean of that value: `true`, an array, an object are truthy; null is not
ReturnTruthy(op, records) ==
  IF op = "getPaperDetails" THEN records # <<>> ELSE TRUE

\* the message of the Error the catch block throws
CatchMessage(op, e) ==
  CASE op = "verifyConnection" ->
         (CASE e.code = "ServiceUnavailable" ->
                 "Neo4j service is not available. Please check if the database is running and port 7687 is accessible."
            [] e.code = "SecurityError" ->
                 "Authentication failed. Please check your credentials."
            [] OTHER -> "Connection verification failed: " \o e.message)
    [] op = "getAllPapers" -> "Failed to fetch papers: " \o e.message
    [] op = "getPaperDetails" -> "Failed to fetch paper details: " \o e.message
    [] OTHER -> "Failed to fetch related papers: " \o e.message

(***************************************************************************)
(* Neo4jService: one invocation, step by step.                             *)
(***************************************************************************)
\* `const session = await this.getSession()`: driver.session() either returns
\* a session or throws, and getSession rethrows
Invoke(op, who) ==
  /\ svcPc \in {"idle", "settled"}
  /\ svcOp' = op
  /\ caller' = who
  /\ calls' = [calls EXCEPT ![op] = @ + 1]
  /\ svcStep' = 1
  /\ svcError' = NoError
  /\ svcPending' = NoOutcome
  /\ closeRejected' = FALSE
  /\ issued' = <<>>
  /\ inflight' = inflight
  /\ \/ /\ openSessions' = openSessions + 1
        /\ svcPc' = "ready"
        /\ svcOutcome' = NoOutcome
     \/ /\ \E e \in Errors : svcOutcome' = Rejected(e.message)
        /\ svcPc' = "settled"
        /\ openSessions' = openSessions

\* the try block sends its next request
SvcRun ==
  /\ svcPc = "ready"
  /\ issued' = Append(issued, Requests(svcOp)[svcStep])
  /\ inflight' = inflight + 1
  /\ svcPc' = "awaiting"
  /\ UNCHANGED <<svcOp, svcStep, svcError, svcPending, svcOutcome,
                 closeRejected, openSessions, calls, caller>>
  /\ UNCHANGED <<viewVars, sceneVars, scriptVars>>

\* the request is answered; after the last one the try block returns
SvcRespondOk ==
  /\ svcPc = "awaiting"
  /\ inflight' = inflight - 1
  /\ \E records \in Answers(svcOp, svcStep) :
       IF svcStep < Len(Requests(svcOp))
       THEN /\ svcStep' = svcStep + 1
            /\ svcPc' = "ready"
            /\ svcPending' = svcPending
       ELSE /\ svcStep' = svcStep
            /\ svcPc' = "closing"
            /\ svcPending' = Resolved(ReturnValue(svcOp, records),
                                   ReturnTruthy(svcOp, records))
  /\ UNCHANGED <<svcOp, svcError, svcOutcome, closeRejected, openSessions,
                 issued, calls, caller>>
  /\ UNCHANGED <<viewVars, sceneVars, scriptVars>>

\* the request fails: the catch block logs and throws the wrapped error
SvcRespondFail ==
  /\ svcPc = "awaiting"
  /\ inflight' = inflight - 1
  /\ \E e \in Errors :
       /\ svcError' = e
       /\ svcPending' = Rejected(CatchMessage(svcOp, e))
  /\ svcPc' = "closing"
  /\ UNCHANGED <<svcOp, svcStep, svcOutcome, closeRejected, openSessions,
                 issued, calls, caller>>
  /\ UNCHANGED <<viewVars, sceneVars, scriptVars>>

\* variant of SvcFinally for an operation that has no finally block: the
\* completion is delivered and the session stays open
SvcFinallyLeak ==
  /\ svcPc = "closing"
  /\ svcOutcome' = svcPending
  /\ svcPc' = "settled"
  /\ UNCHANGED <<svcOp, svcStep, svcError, svcPending, closeRejected,
                 openSessions, inflight, issued, calls, caller>>
  /\ UNCHANGED <<viewVars, sceneVars, scriptVars>>

\* finally { await session.close() } resolves: the recorded completion stands
SvcFinally ==
  /\ svcPc = "closing"
  /\ openSessions' = openSessions - 1
  /\ svcOutcome' = svcPending
  /\ svcPc' = "settled"
  /\ UNCHANGED <<svcOp, svcStep, svcError, svcPending, closeRejected,
                 inflight, issued, calls, caller>>
  /\ UNCHANGED <<viewVars, sceneVars, scriptVars>>

\* finally { await session.close() } rejects: its error replaces the completion
SvcFinallyThrows ==
  /\ svcPc = "closing"
  /\ \E e \in Errors : svcOutcome' = Rejected(e.message)
  /\ closeRejected' = TRUE
  /\ svcPc' = "settled"
  /\ UNCHANGED <<svcOp, svcStep, svcError, svcPending, openSessions,
                 inflight, issued, calls, caller>>
  /\ UNCHANGED <<viewVars, sceneVars, scriptVars>>

SvcInit ==
  /\ svcOp = "none"
  /\ svcPc = "idle"
  /\ svcStep = 1
  /\ svcError = NoError
  /\ svcPending = NoOutcome
  /\ svcOutcome = NoOutcome
  /\ closeRejected = FALSE
  /\ openSessions = 0
  /\ inflight = 0
  /\ issued = <<>>
  /\ calls = [op \in Ops |-> 0]
  /\ caller = "none"

(***************************************************************************)
(* StarView: component state, render, and the fetch effect.                *)
(***************************************************************************)
FetchIntervalHours == 24

\* the lastFetchTime state: null, or the Date.now() of the last fetch
NullTime == [t |-> "null", n |-> 0]
TimeVal(n) == [t |-> "number", n |-> n]

\* variant of shouldFetchNewData with the comparison turned around
shouldFetchNewDataFlipped(lft, t) ==
  IF lft.t = "null" \/ lft.n = 0 THEN TRUE
  ELSE t - lft.n < FetchIntervalHours

\* shouldFetchNewData, with Date.now() = t
shouldFetchNewData(lft, t) ==
  IF lft.t = "null" \/ lft.n = 0 THEN TRUE
  ELSE t - lft.n >= FetchIntervalHours

\* neo4jData.map(paper => paper.name)
PaperName(paper) == paper.name

\* variant of KeepName without the typeof test
KeepNameTruthy(name) == Truthy(name)

\* name => name && typeof name === 'string'
KeepName(name) == Truthy(name) /\ name.t = "string"

\* Array.prototype.map with PaperName
MapNames(data) == [i \in 1..Len(data) |-> PaperName(data[i])]

\* Array.prototype.filter with KeepName
RECURSIVE FilterNames(_)
FilterNames(names) ==
  IF names = <<>> THEN <<>>
  ELSE (IF KeepName(Head(names)) THEN <<Head(names)>> ELSE <<>>)
       \o FilterNames(Tail(names))

\* the names fetchData keeps
NamesOf(data) == FilterNames(MapNames(data))

\* StarScene: papers.map((name, index) => <PaperNode key={index} .../>)
StarSceneNodes(ps) ==
  [i \in 1..Len(ps) |-> [key |-> i - 1, name |-> ps[i], index |-> i - 1]]

\* StarView's return: the loading screen, the error screen, or the canvas with
\* the scene and the info panel ("Total papers: {papers.length}")
Render(ld, err, ps) ==
  IF ld THEN [view |-> "loading", nodes |-> <<>>, total |-> 0]
  ELSE IF Truthy(err) THEN [view |-> "error", nodes |-> <<>>, total |-> 0]
  ELSE [view |-> "scene", nodes |-> StarSceneNodes(ps), total |-> Len(ps)]

ViewInit ==
  /\ error = Null
  /\ loading = TRUE
  /\ papers = <<>>
  /\ lastFetchTime = NullTime
  /\ connectionStatus = "Checking connection..."
  /\ effectPending = TRUE
  /\ fetchPc = "idle"
  /\ neo4jData = <<>>
  /\ lastRun = "none"
  /\ now = 1
  /\ rendered = Render(TRUE, Null, <<>>)

\* the effect runs (after mount, and after a commit that changed
\* lastFetchTime): fetchData up to its first await
EffectRun ==
  /\ effectPending
  /\ fetchPc = "idle"
  /\ effectPending' = FALSE
  /\ IF ~shouldFetchNewData(lastFetchTime, now)
     THEN /\ loading' = FALSE
          /\ lastRun' = "cached"
          /\ rendered' = Render(FALSE, error, papers)
          /\ UNCHANGED <<connectionStatus, fetchPc, svcVars>>
     ELSE /\ connectionStatus' = "Connecting to Neo4j..."
          /\ Invoke("verifyConnection", "view")
          /\ fetchPc' = "verifying"
          /\ UNCHANGED <<loading, lastRun, rendered>>
  /\ UNCHANGED <<error, papers, lastFetchTime, neo4jData, now>>
  /\ UNCHANGED <<sceneVars, scriptVars>>

\* verifyConnection resolved: check isConnected, then call getAllPapers
FetchAfterVerify ==
  /\ fetchPc = "verifying"
  /\ caller = "view"
  /\ svcPc = "settled"
  /\ svcOutcome.kind = "resolved"
  /\ IF ~svcOutcome.truthy
     THEN /\ error' = Str("Failed to connect to Neo4j database")
          /\ loading' = FALSE
          /\ fetchPc' = "idle"
          /\ lastRun' = "failed"
          /\ rendered' = Render(FALSE, error', papers)
          /\ UNCHANGED <<connectionStatus, svcVars>>
     ELSE /\ connectionStatus' = "Connected to Neo4j. Loading papers..."
          /\ Invoke("getAllPapers", "view")
          /\ fetchPc' = "loadingPapers"
          /\ UNCHANGED <<error, loading, lastRun, rendered>>
  /\ UNCHANGED <<papers, lastFetchTime, effectPending, neo4jData, now>>
  /\ UNCHANGED <<sceneVars, scriptVars>>

\* getAllPapers resolved: keep the names, stamp the fetch, stop loading (the
\* state updates that follow the await are taken as one commit); the commit
\* changes lastFetchTime, which schedules the effect again
FetchAfterPapers ==
  /\ fetchPc = "loadingPapers"
  /\ caller = "view"
  /\ svcPc = "settled"
  /\ svcOutcome.kind = "resolved"
  /\ neo4jData' = svcOutcome.value
  /\ papers' = NamesOf(svcOutcome.value)
  /\ lastFetchTime' = TimeVal(now)
  /\ loading' = FALSE
  /\ error' = IF Len(papers') = 0 THEN Str("No papers found in the database")
              ELSE error
  /\ effectPending' = (lastFetchTime' # lastFetchTime)
  /\ fetchPc' = "idle"
  /\ lastRun' = "fetched"
  /\ rendered' = Render(FALSE, error', papers')
  /\ UNCHANGED <<connectionStatus, now, svcVars>>
  /\ UNCHANGED <<sceneVars, scriptVars>>

\* variant of FetchCatch that schedules the fetch again after an error
FetchCatchRetry ==
  /\ fetchPc \in {"verifying", "loadingPapers"}
  /\ caller = "view"
  /\ svcPc = "settled"
  /\ svcOutcome.kind = "rejected"
  /\ error' = Str(svcOutcome.message)
  /\ loading' = FALSE
  /\ fetchPc' = "idle"
  /\ lastRun' = "failed"
  /\ effectPending' = TRUE
  /\ rendered' = Render(FALSE, error', papers)
  /\ UNCHANGED <<papers, lastFetchTime, connectionStatus, neo4jData, now,
                 svcVars>>
  /\ UNCHANGED <<sceneVars, scriptVars>>

\* an awaited service call rejected: catch (err) { setError(err.message); ... }
FetchCatch ==
  /\ fetchPc \in {"verifying", "loadingPapers"}
  /\ caller = "view"
  /\ svcPc = "settled"
  /\ svcOutcome.kind = "rejected"
  /\ error' = Str(svcOutcome.message)
  /\ loading' = FALSE
  /\ fetchPc' = "idle"
  /\ lastRun' = "failed"
  /\ rendered' = Render(FALSE, error', papers)
  /\ UNCHANGED <<papers, lastFetchTime, connectionStatus, effectPending,
                 neo4jData, now, svcVars>>
  /\ UNCHANGED <<sceneVars, scriptVars>>

\* an hour passes; a scheduled effect runs before that
Tick ==
  /\ ~effectPending
  /\ now < MaxNow
  /\ now' = now + 1
  /\ UNCHANGED <<error, loading, papers, lastFetchTime, connectionStatus,
                 effectPending, fetchPc, neo4jData, lastRun, rendered, svcVars>>
  /\ UNCHANGED <<sceneVars, scriptVars>>

(***************************************************************************)
(* Other clients of the exported service instance.                         *)
(***************************************************************************)
ClientCall ==
  /\ caller \in {"none", "client"}
  /\ calls["verifyConnection"] + calls["getAllPapers"]
       + calls["getPaperDetails"] + calls["getRelatedPapers"] < MaxCalls
  /\ \E op \in Ops : Invoke(op, "client")
  /\ UNCHANGED <<viewVars, sceneVars, scriptVars>>

(***************************************************************************)
(* StarScene and CameraController: keyboard, pointer, wheel, render loop.  *)
(***************************************************************************)
Origin == <<0, 0, 0>>

\* what Math.random() contributes to a node's x, y and z
Draws == {<<0, 0, 0>>, <<3, -2, 5>>}

\* paperPositions[index], for one outcome of the random draws
NodePosition(index, draw) == <<draw[1], draw[2], draw[3] + index * 10>>

\* the keys the model presses
MoveKeys == {"w", "a", "s", "d"}
HoldKeys == MoveKeys \cup {"space", "shift"}
PressKeys == HoldKeys \cup {"f", "r"}

\* KeyboardEvent.key of a physical key, given the state of Shift
EventKey(k, shiftDown) ==
  CASE k = "space" -> " "
    [] k = "shift" -> "Shift"
    [] shiftDown ->
         (CASE k = "w" -> "W" [] k = "a" -> "A" [] k = "s" -> "S"
            [] k = "d" -> "D" [] k = "f" -> "F" [] OTHER -> "R")
    [] OTHER -> k

\* String.prototype.toLowerCase on those key names
toLowerCase(s) ==
  CASE s = "W" -> "w" [] s = "A" -> "a" [] s = "S" -> "s" [] s = "D" -> "d"
    [] s = "F" -> "f" [] s = "R" -> "r" [] s = "Shift" -> "shift"
    [] OTHER -> s

NoKeys == [w |-> FALSE, a |-> FALSE, s |-> FALSE, d |-> FALSE,
           shift |-> FALSE, space |-> FALSE]

\* { ...prev, [key]: b }: only the six properties useFrame reads are kept
SetKey(prev, key, b) ==
  IF key \in DOMAIN prev THEN [prev EXCEPT ![key] = b] ELSE prev

\* CameraController.handleKeyDown
handleKeyDown(prev, eventKey, shiftKey) ==
  LET key == toLowerCase(eventKey) IN
  IF key \in MoveKeys \/ eventKey = " " \/ shiftKey
  THEN [SetKey(prev, key, TRUE) EXCEPT
          !.space = IF eventKey = " " THEN TRUE ELSE prev.space,
          !.shift = shiftKey]
  ELSE prev

\* CameraController.handleKeyUp
handleKeyUp(prev, eventKey, shiftKey) ==
  LET key == toLowerCase(eventKey) IN
  IF key \in MoveKeys \/ eventKey = " "
  THEN [SetKey(prev, key, FALSE) EXCEPT
          !.space = IF eventKey = " " THEN FALSE ELSE prev.space,
          !.shift = shiftKey]
  ELSE prev

\* variant of toggleAutoFlight that misses the upper-case key name
toggleLowercaseOnly(prev, eventKey) ==
  IF eventKey = "f" THEN ~prev ELSE prev

\* StarScene.handleKeyDown: the autoFlight toggle
toggleAutoFlight(prev, eventKey) ==
  IF eventKey = "f" \/ eventKey = "F" THEN ~prev ELSE prev

\* StarScene.handleKeyDown: the orbit target reset
resetOrbitTarget(prev, eventKey) ==
  IF eventKey = "r" \/ eventKey = "R" THEN Origin ELSE prev

\* variant of handleStarClick that takes the star mesh's floating position
\* (y offset by the bobbing motion) instead of the node's position
handleStarClickMesh(prev, position) ==
  <<position[1], position[2] + 1, position[3]>>

\* StarScene.handleStarClick(position)
handleStarClick(prev, position) == position

ForwardSpeed == 2
SlowSpeed == 5
FastSpeed == 10

\* <PerspectiveCamera makeDefault position={[0, 20, 300]} />
StartCamera == [toward |-> 0, right |-> 0, y |-> 20, z |-> 300, sway |-> 0]

\* `keys.shift ? 10 : 5`
moveSpeed(k) == IF k.shift THEN FastSpeed ELSE SlowSpeed

\* `keys.w || keys.a || keys.s || keys.d || keys.space`
hasManualInput(k) == k.w \/ k.a \/ k.s \/ k.d \/ k.space

\* variant of useFrame with two independent ifs instead of if / else if
useFrameNoOverride(k, auto, cam) ==
  LET speed == moveSpeed(k)
      manual ==
        IF hasManualInput(k)
        THEN [cam EXCEPT
                !.toward = @ + (IF k.w THEN speed ELSE 0)
                             - (IF k.s THEN speed ELSE 0),
                !.right = @ - (IF k.a THEN speed ELSE 0)
                            + (IF k.d THEN speed ELSE 0),
                !.y = @ + (IF k.space THEN speed ELSE 0)]
        ELSE cam
  IN IF auto
     THEN [manual EXCEPT !.z = @ - ForwardSpeed, !.sway = @ + 1]
     ELSE manual

\* CameraController's useFrame callback: the camera position after the frame.
\* The position is kept as the world y and z coordinates, the displacement
\* accumulated toward the orbit target and to the camera's right, and the
\* number of sway offsets added to x and y.
useFrame(k, auto, cam) ==
  LET speed == moveSpeed(k) IN
  IF hasManualInput(k)
  THEN [cam EXCEPT
          !.toward = @ + (IF k.w THEN speed ELSE 0) - (IF k.s THEN speed ELSE 0),
          !.right = @ - (IF k.a THEN speed ELSE 0) + (IF k.d THEN speed ELSE 0),
          !.y = @ + (IF k.space THEN speed ELSE 0)]
  ELSE IF auto
  THEN [cam EXCEPT !.z = @ - ForwardSpeed, !.sway = @ + 1]
  ELSE cam

NoFrame == [n |-> 0, speed |-> 0, shiftHeld |-> FALSE]

\* a key goes down (or repeats while held): both window listeners run
KeyDown ==
  \E k \in PressKeys :
    /\ k \in HoldKeys /\ k \notin held => Cardinality(held) < MaxHeld
    /\ k = "f" => fPresses < MaxFPresses
    /\ LET nowHeld == IF k \in HoldKeys THEN held \cup {k} ELSE held
           shiftKey == "shift" \in nowHeld
           eventKey == EventKey(k, shiftKey)
       IN /\ held' = nowHeld
          /\ keys' = handleKeyDown(keys, eventKey, shiftKey)
          /\ autoFlight' = toggleAutoFlight(autoFlight, eventKey)
          /\ orbitTarget' = resetOrbitTarget(orbitTarget, eventKey)
          /\ controlsTarget' = resetOrbitTarget(controlsTarget, eventKey)
          /\ fPresses' = IF k = "f" THEN fPresses + 1 ELSE fPresses
    /\ UNCHANGED <<paperPositions, camera, moves, lastFrame>>
  /\ UNCHANGED <<svcVars, viewVars, scriptVars>>

\* a held key goes up; only CameraController listens
KeyUp ==
  \E k \in held :
    LET nowHeld == held \ {k}
        shiftKey == "shift" \in nowHeld
        eventKey == EventKey(k, shiftKey)
    IN /\ held' = nowHeld
       /\ keys' = handleKeyUp(keys, eventKey, shiftKey)
       /\ UNCHANGED <<autoFlight, orbitTarget, controlsTarget, paperPositions,
                      camera, moves, fPresses, lastFrame>>
  /\ UNCHANGED <<svcVars, viewVars, scriptVars>>

\* a star is clicked: PaperNode.handleClick calls onStarClick(position)
Click ==
  \E i \in 1..Len(paperPositions) :
    /\ orbitTarget' = handleStarClick(orbitTarget, paperPositions[i])
    /\ controlsTarget' = handleStarClick(controlsTarget, paperPositions[i])
    /\ UNCHANGED <<autoFlight, paperPositions, keys, held, camera, moves,
                   fPresses, lastFrame>>
  /\ UNCHANGED <<svcVars, viewVars, scriptVars>>

\* StarScene.handleWheel: with Ctrl held the camera moves along the line from
\* the orbit target, by deltaY * 0.01 (one unit of the model per notch)
Wheel ==
  \E ctrlKey \in BOOLEAN, deltaY \in {-1, 1} :
    /\ moves < MaxMoves
    /\ IF ctrlKey
       THEN /\ camera' = [camera EXCEPT !.toward = @ - deltaY]
            /\ moves' = moves + 1
       ELSE UNCHANGED <<camera, moves>>
    /\ UNCHANGED <<autoFlight, orbitTarget, controlsTarget, paperPositions,
                   keys, held, fPresses, lastFrame>>
  /\ UNCHANGED <<svcVars, viewVars, scriptVars>>

\* the render loop calls CameraController's useFrame callback
Frame ==
  /\ moves < MaxMoves
  /\ camera' = useFrame(keys, autoFlight, camera)
  /\ moves' = moves + 1
  /\ lastFrame' = [n |-> lastFrame.n + 1, speed |-> moveSpeed(keys),
                   shiftHeld |-> "shift" \in held]
  /\ UNCHANGED <<autoFlight, orbitTarget, controlsTarget, paperPositions,
                 keys, held, fPresses>>
  /\ UNCHANGED <<svcVars, viewVars, scriptVars>>

\* before the scene is mounted
SceneIdle ==
  /\ autoFlight = FALSE
  /\ orbitTarget = Origin
  /\ controlsTarget = Origin
  /\ paperPositions = <<>>
  /\ keys = NoKeys
  /\ held = {}
  /\ camera = StartCamera
  /\ moves = 0
  /\ fPresses = 0
  /\ lastFrame = NoFrame

(***************************************************************************)
(* The connection-test script.                                             *)
(***************************************************************************)
\* what session.run resolves with: at least one row, or none
Rows == {"row", "empty"}

\* reading records[0] of an empty result throws inside the try block
TypeError == [code |-> "", message |-> "Cannot read properties of undefined"]

\* the console output of the catch block
CatchLog(e) ==
  <<"Connection test failed with error:", "Error details:">>
  \o (IF e.code = "ServiceUnavailable"
      THEN <<"Please check if:", "1. Neo4j server is running",
             "2. Port 7687 is accessible",
             "3. Server configuration matches:",
             "   - server.bolt.enabled=true",
             "   - server.bolt.tls_level=DISABLED",
             "   - server.bolt.listen_address=:7687">>
      ELSE <<>>)

\* catch (error) { ... } followed by the start of finally, up to the await
\* of session.close()
TCatch(e) ==
  /\ tError' = e
  /\ tLog' = tLog \o CatchLog(e) \o <<"Closing session...">>
  /\ tCleanup' = Append(tCleanup, "session.close")
  /\ tPc' = "closingSession"
  /\ tExit' = tExit

\* testConnection() up to its first await
TStart ==
  /\ tPc = "start"
  /\ tLog' = <<"Starting connection test...", "Driver created with settings:",
               "Session created, testing connection...",
               "Running test query...">>
  /\ tPc' = "query1"
  /\ UNCHANGED <<tError, tCleanup, tExit>>
  /\ UNCHANGED <<svcVars, viewVars, sceneVars>>

\* `RETURN 1 as n` is answered
TQuery1 ==
  /\ tPc = "query1"
  /\ \E rows \in Rows :
       IF rows = "row"
       THEN /\ tLog' = tLog \o <<"Basic connection test successful:",
                                 "Getting database info...">>
            /\ tPc' = "query2"
            /\ UNCHANGED <<tError, tCleanup, tExit>>
       ELSE TCatch(TypeError)
  /\ UNCHANGED <<svcVars, viewVars, sceneVars>>

\* `RETURN 1 as n` fails
TQuery1Fails ==
  /\ tPc = "query1"
  /\ \E e \in Errors : TCatch(e)
  /\ UNCHANGED <<svcVars, viewVars, sceneVars>>

\* `CALL dbms.components()` is answered; the try block ends and finally starts
TQuery2 ==
  /\ tPc = "query2"
  /\ \E rows \in Rows :
       IF rows = "row"
       THEN /\ tLog' = tLog \o <<"Database info:",
                                 "Connection test completed successfully!",
                                 "Closing session...">>
            /\ tCleanup' = Append(tCleanup, "session.close")
            /\ tPc' = "closingSession"
            /\ UNCHANGED <<tError, tExit>>
       ELSE TCatch(TypeError)
  /\ UNCHANGED <<svcVars, viewVars, sceneVars>>

\* `CALL dbms.components()` fails
TQuery2Fails ==
  /\ tPc = "query2"
  /\ \E e \in Errors : TCatch(e)
  /\ UNCHANGED <<svcVars, viewVars, sceneVars>>

\* await session.close() resolves: finally goes on to driver.close()
TSessionClosed ==
  /\ tPc = "closingSession"
  /\ tLog' = Append(tLog, "Closing driver...")
  /\ tCleanup' = Append(tCleanup, "driver.close")
  /\ tPc' = "closingDriver"
  /\ UNCHANGED <<tError, tExit>>
  /\ UNCHANGED <<svcVars, viewVars, sceneVars>>

\* await driver.close() resolves: testConnection resolves, the process ends
TDriverClosed ==
  /\ tPc = "closingDriver"
  /\ tLog' = Append(tLog, "Cleanup completed.")
  /\ tPc' = "done"
  /\ tExit' = 0
  /\ UNCHANGED <<tError, tCleanup>>
  /\ UNCHANGED <<svcVars, viewVars, sceneVars>>

\* an await inside finally rejects: testConnection rejects, and
\* testConnection().catch logs and calls process.exit(1)
TCloseFails ==
  /\ tPc \in {"closingSession", "closingDriver"}
  /\ \E e \in Errors : tError' = e
  /\ tLog' = Append(tLog, "Unhandled error in test connection:")
  /\ tPc' = "exited"
  /\ tExit' = 1
  /\ UNCHANGED tCleanup
  /\ UNCHANGED <<svcVars, viewVars, sceneVars>>

ScriptIdle ==
  /\ tPc = "start"
  /\ tError = NoError
  /\ tLog = <<>>
  /\ tCleanup = <<>>
  /\ tExit = -1

(***************************************************************************)
(* Specifications.                                                         *)
(***************************************************************************)
\* StarView is mounted and fetches through the service
Init == SvcInit /\ ViewInit /\ SceneIdle /\ ScriptIdle
Next ==
  \/ EffectRun \/ FetchAfterVerify \/ FetchAfterPapers \/ FetchCatch \/ Tick
  \/ SvcRun \/ SvcRespondOk \/ SvcRespondFail \/ SvcFinally \/ SvcFinallyThrows
Spec == Init /\ [][Next]_vars

\* the service used directly by another client, one call after the other
ServiceNext ==
  \/ ClientCall
  \/ SvcRun \/ SvcRespondOk \/ SvcRespondFail \/ SvcFinally \/ SvcFinallyThrows
SpecService == Init /\ [][ServiceNext]_vars

\* the state in which StarView shows the scene: getAllPapers resolved with
\* `data`, the names were kept, and the effect scheduled by the change of
\* lastFetchTime found the data fresh
Fetched(data) ==
  /\ svcOp = "getAllPapers"
  /\ svcPc = "settled"
  /\ svcStep = Len(Requests("getAllPapers"))
  /\ svcError = NoError
  /\ svcPending = Resolved(data, TRUE)
  /\ svcOutcome = Resolved(data, TRUE)
  /\ closeRejected = FALSE
  /\ openSessions = 0
  /\ inflight = 0
  /\ issued = Requests("getAllPapers")
  /\ calls = [op \in Ops |->
                IF op \in {"verifyConnection", "getAllPapers"} THEN 1 ELSE 0]
  /\ caller = "view"
  /\ error = Null
  /\ loading = FALSE
  /\ papers = NamesOf(data)
  /\ lastFetchTime = TimeVal(1)
  /\ connectionStatus = "Connected to Neo4j. Loading papers..."
  /\ effectPending = FALSE
  /\ fetchPc = "idle"
  /\ neo4jData = data
  /\ lastRun = "cached"
  /\ now = 1
  /\ rendered = Render(FALSE, Null, NamesOf(data))

\* StarScene as mounted for n papers: autoFlight off, the orbit target at the
\* origin, the positions drawn once, no key down, the camera at its start
Mounted(n) ==
  /\ Fetched([i \in 1..n |-> [id |-> IntToString(i), name |-> Str("a")]])
  /\ autoFlight = FALSE
  /\ orbitTarget = Origin
  /\ controlsTarget = Origin
  /\ \E draws \in [1..n -> Draws] :
       paperPositions = [i \in 1..n |-> NodePosition(i - 1, draws[i])]
  /\ keys = NoKeys
  /\ held = {}
  /\ camera = StartCamera
  /\ moves = 0
  /\ fPresses = 0
  /\ lastFrame = NoFrame
  /\ ScriptIdle

\* the scene's controls: keyboard, pointer and wheel
SceneInit == \E n \in 1..MaxRecords : Mounted(n)
SceneNext == KeyDown \/ KeyUp \/ Click \/ Wheel
SpecScene == SceneInit /\ [][SceneNext]_vars

\* the camera under the keyboard and the render loop
CameraInit == Mounted(1)
CameraNext == KeyDown \/ KeyUp \/ Frame
SpecCamera == CameraInit /\ [][CameraNext]_vars

\* the connection-test script
ScriptNext ==
  \/ TStart \/ TQuery1 \/ TQuery1Fails \/ TQuery2 \/ TQuery2Fails
  \/ TSessionClosed \/ TDriverClosed \/ TCloseFails
SpecScript == Init /\ [][ScriptNext]_vars

(***************************************************************************)
(* Properties.                                                             *)
(***************************************************************************)
IsNonEmptyString(x) == x.t = "string" /\ x.v # ""
Range(f) == {f[i] : i \in DOMAIN f}
Occurrences(seq, x) == Cardinality({i \in DOMAIN seq : seq[i] = x})
Stale == lastFetchTime.t = "null" \/ now - lastFetchTime.n >= 24
EffectRuns == effectPending /\ ~effectPending'
FrameRuns == lastFrame'.n = lastFrame.n + 1

\* C1: after a successful fetch, papers is exactly the sequence of the name
\* values of the records getAllPapers returned that are non-empty strings, in
\* the returned order, and the scene holds one PaperNode per entry, as many as
\* the "Total papers" count shows.
C1_PapersAreFetchedNames ==
  lastFetchTime.t = "number" =>
    LET kept == {j \in 1..Len(neo4jData) : IsNonEmptyString(neo4jData[j].name)}
    IN /\ neo4jData = svcOutcome.value
       /\ Len(papers) = Cardinality(kept)
       /\ \A j \in kept :
            papers[Cardinality({k \in kept : k < j}) + 1] = neo4jData[j].name
       /\ papers # <<>> =>
            /\ rendered.view = "scene"
            /\ Len(rendered.nodes) = Len(papers)
            /\ \A i \in 1..Len(papers) : rendered.nodes[i].name = papers[i]
            /\ rendered.total = Len(rendered.nodes)

C1_Witness ==
  /\ lastRun = "fetched"
  /\ Len(neo4jData) = 2
  /\ neo4jData[1].name = Num("7")
  /\ papers = <<Str("b")>>
  /\ rendered.view = "scene"
  /\ rendered.total = 1

\* C2: when a query of getAllPapers, getPaperDetails or getRelatedPapers fails
\* with message m, the operation rejects with its fixed prefix followed by m,
\* and never resolves.
C2_QueryFailureIsWrapped ==
  LET prefix ==
        CASE svcOp = "getAllPapers" -> "Failed to fetch papers: "
          [] svcOp = "getPaperDetails" -> "Failed to fetch paper details: "
          [] OTHER -> "Failed to fetch related papers: "
  IN (/\ svcOp \in {"getAllPapers", "getPaperDetails", "getRelatedPapers"}
      /\ svcPc = "settled"
      /\ svcError # NoError)
     => /\ svcOutcome.kind = "rejected"
        /\ svcOutcome.message = prefix \o svcError.message

\* C3: no retry. Within one invocation each request is sent at most once and
\* none is sent after one failed; and once a fetch of StarView has failed,
\* lastFetchTime stays null, the effect is not scheduled again, and no service
\* operation is called any more.
C3_NoRetry ==
  /\ [](\A q \in Range(issued) : Occurrences(issued, q) = 1)
  /\ [](lastRun = "failed" => lastFetchTime = NullTime /\ ~effectPending)
  /\ [][(svcError # NoError => issued' = issued /\ calls' = calls)
        /\ (lastRun = "failed" =>
              /\ calls' = calls
              /\ issued' = issued
              /\ lastRun' = "failed")]_vars

C3_Witness ==
  /\ lastRun = "failed"
  /\ svcOp = "getAllPapers"
  /\ svcError # NoError
  /\ issued = <<"CALL db.labels()", "MATCH (n) RETURN n">>
  /\ now > 3

\* C4: StarView's database access is sequential. getAllPapers starts only
\* after verifyConnection resolved true, a request is sent only when none is
\* outstanding, and a session is opened only when none is open.
C4_Sequential ==
  /\ [](openSessions <= 1 /\ inflight <= 1)
  /\ [][/\ calls'["getAllPapers"] # calls["getAllPapers"] =>
             /\ svcOp = "verifyConnection"
             /\ svcPc = "settled"
             /\ svcOutcome.kind = "resolved"
             /\ svcOutcome.truthy
             /\ issued = Requests("verifyConnection")
        /\ inflight' > inflight => inflight = 0
        /\ openSessions' > openSessions => openSessions = 0 /\ inflight = 0]_vars

C4_Witness ==
  /\ svcOp = "getAllPapers"
  /\ svcPc = "awaiting"
  /\ svcStep = 2
  /\ openSessions = 1
  /\ inflight = 1

\* C5: a run of the fetch effect calls the service only if lastFetchTime is
\* null or at least 24 hours old; otherwise it calls nothing, leaves papers
\* and error as they are and sets loading to false. The run scheduled by the
\* successful fetch's own setLastFetchTime is such a run.
C5_FetchOnlyWhenStale ==
  [][/\ calls' # calls => Stale
     /\ EffectRuns /\ ~Stale =>
          /\ UNCHANGED svcVars
          /\ papers' = papers
          /\ error' = error
          /\ loading' = FALSE
     /\ EffectRuns /\ lastRun = "fetched" => calls' = calls /\ lastRun' = "cached"]_vars

C5_Witness ==
  /\ lastRun = "cached"
  /\ calls["verifyConnection"] = 1
  /\ calls["getAllPapers"] = 1
  /\ ~loading
  /\ papers # <<>>

\* C6: after any sequence of keydown and keyup events keys.shift is true
\* exactly when Shift is held, so a frame moves at 10 while Shift is held and
\* at 5 while it is not.
C6_ShiftFlagTracksKey ==
  /\ keys.shift = ("shift" \in held)
  /\ lastFrame.n > 0 => lastFrame.speed = IF lastFrame.shiftHeld THEN 10 ELSE 5

\* C7: manual controls override auto-flight. A frame with w, a, s, d or space
\* set applies no auto-flight displacement; a frame with none of them set
\* applies it (z decreased by the forward speed, plus sway) if autoFlight is
\* true and leaves the camera where it is if autoFlight is false.
C7_ManualOverridesAutoFlight ==
  [][FrameRuns =>
       LET manual == keys.w \/ keys.a \/ keys.s \/ keys.d \/ keys.space
       IN /\ manual => camera'.z = camera.z /\ camera'.sway = camera.sway
          /\ ~manual /\ autoFlight =>
               camera' = [camera EXCEPT !.z = @ - 2, !.sway = @ + 1]
          /\ ~manual /\ ~autoFlight => camera' = camera
          /\ camera'.z # camera.z \/ camera'.sway # camera.sway =>
               autoFlight /\ ~manual]_vars

C7_Witness ==
  /\ lastFrame.n = 1
  /\ autoFlight
  /\ keys.w
  /\ keys.shift
  /\ camera = [StartCamera EXCEPT !.toward = 10]

\* C8: autoFlight is false when the scene is mounted and flips on every
\* keydown of 'f' or 'F' and on nothing else: after n of them it is true
\* exactly when n is odd.
C8_AutoFlightParity == autoFlight = (fPresses % 2 = 1)

C8_Witness ==
  /\ fPresses = 2
  /\ ~autoFlight
  /\ "shift" \in held
  /\ orbitTarget # Origin

\* C9: the orbit target is the origin or the position of a rendered paper
\* node; it changes only to such a point, and not on a step that presses or
\* releases W, A, S, D, Space or Shift, presses F, or turns the wheel.
C9_OrbitTarget ==
  /\ [](/\ orbitTarget \in {Origin} \cup Range(paperPositions)
        /\ controlsTarget = orbitTarget)
  /\ [][orbitTarget' # orbitTarget =>
          /\ orbitTarget' \in {Origin} \cup Range(paperPositions)
          /\ held' = held
          /\ fPresses' = fPresses
          /\ camera' = camera]_vars

C9_Witness ==
  /\ Len(paperPositions) = 2
  /\ orbitTarget = paperPositions[2]
  /\ orbitTarget # Origin
  /\ held # {}
  /\ moves > 0

\* C10: whether the test queries succeed or fail, the script closes the
\* session and then the driver, each exactly once, and exits with code 1 only
\* when testConnection rejected.
C10_AlwaysCleansUp ==
  tPc \in {"done", "exited"} =>
    /\ tCleanup = <<"session.close", "driver.close">>
    /\ tExit = 1 <=> tPc = "exited"

====
